---- MODULE Spec2Model ----
(***************************************************************************)
(* Model of scripts/generate_function_wiki.py: the multi-language          *)
(* signature indexer (clean_signature, parse_swift, parse_python,          *)
(* parse_shell, collect_functions, find_changes_in_worktree).              *)
(*                                                                         *)
(* Text is a sequence of lexemes.  A lexeme is a single character          *)
(* (" ", "{", ":", "(", ")", "/", ".", ...) or a whole word ("func",       *)
(* "def", "x", ...); the regular expressions and the str methods of the    *)
(* source are evaluated lexeme by lexeme.                                  *)
(***************************************************************************)
EXTENDS Integers, Sequences, FiniteSets, TLC

VARIABLES
    sig_in,      \* clean_signature: the argument under construction
    sig_out,     \* clean_signature: the value returned
    sig_done,    \* clean_signature: TRUE once it has been applied
    src_path,    \* parse_file: the file's path relative to ROOT
    src_lines,   \* parse_file: the file's lines (read_text().splitlines())
    src_entries, \* parse_file: the list of FunctionEntry returned
    parsed,      \* parse_file: TRUE once it has returned
    tree,        \* the files below ROOT: path -> [lines, readable]
    yield_order, \* the paths in the order iter_source_files yields them
    prev_order,  \* the order iter_source_files yielded them in the run before
    index,       \* the list collect_functions returned in this run
    prev_index,  \* the list collect_functions returned in the run before
    runs,        \* the number of completed collect_functions runs
    cphase,      \* "tree", "found" (files discovered) or "done" (collected)
    sections,    \* the changed files git reports, with their content lines
    added,       \* find_changes_in_worktree: the first dict returned
    removed,     \* find_changes_in_worktree: the second dict returned
    diffed       \* find_changes_in_worktree: TRUE once it has returned

varsClean == <<sig_in, sig_out, sig_done>>

varsParse == <<src_path, src_lines, src_entries, parsed>>

varsCollect == <<tree, yield_order, prev_order, index, prev_index, runs, cphase>>

varsDiff == <<sections, added, removed, diffed>>

vars == <<sig_in, sig_out, sig_done, src_path, src_lines, src_entries, parsed,
          tree, yield_order, prev_order, index, prev_index, runs, cphase,
          sections, added, removed, diffed>>

(***************************************************************************)
(* Bounds                                                                  *)
(***************************************************************************)
MaxLen == 4          \* longest clean_signature argument, in lexemes
MaxLines == 4        \* longest source file, in lines
MaxLongLines == 9    \* longest source file of the lookahead-cap runs
MaxFiles == 3        \* most files in the tree
MaxRuns == 2         \* most collect_functions runs over one tree
MaxDiffLines == 3    \* most content lines in the diff

(***************************************************************************)
(* str helpers                                                             *)
(***************************************************************************)
WS == {" ", "\t"}

Range(s) == {s[k] : k \in 1..Len(s)}

Contains(s, c) == \E k \in 1..Len(s) : s[k] = c

EndsWith(s, c) == Len(s) > 0 /\ s[Len(s)] = c

StartsWith(s, p) ==
    /\ Len(s) >= Len(p)
    /\ \A k \in 1..Len(p) : s[k] = p[k]

\* str.strip(): drop leading and trailing whitespace
Strip(s) ==
    LET ink == {k \in 1..Len(s) : s[k] \notin WS}
    IN  IF ink = {} THEN <<>>
        ELSE LET lo == CHOOSE k \in ink : \A m \in ink : k <= m
                 hi == CHOOSE k \in ink : \A m \in ink : k >= m
             IN  SubSeq(s, lo, hi)

\* str.split() without arguments: the maximal runs of non-whitespace
RECURSIVE SplitWords(_)
SplitWords(s) ==
    IF s = <<>> THEN <<>>
    ELSE IF s[1] \in WS THEN SplitWords(Tail(s))
    ELSE LET stops == {k \in 1..Len(s) : s[k] \in WS}
             n == IF stops = {} THEN Len(s)
                  ELSE (CHOOSE k \in stops : \A m \in stops : k <= m) - 1
         IN  <<SubSeq(s, 1, n)>> \o SplitWords(SubSeq(s, n + 1, Len(s)))

\* " ".join(parts)
RECURSIVE JoinSpace(_)
JoinSpace(parts) ==
    IF parts = <<>> THEN <<>>
    ELSE IF Len(parts) = 1 THEN parts[1]
    ELSE parts[1] \o <<" ">> \o JoinSpace(Tail(parts))

\* sig.split(c, 1)[0]: the text before the first c (all of it when c is absent)
BeforeFirst(s, c) ==
    LET at == {k \in 1..Len(s) : s[k] = c}
    IN  IF at = {} THEN s
        ELSE SubSeq(s, 1, (CHOOSE k \in at : \A m \in at : k <= m) - 1)

(***************************************************************************)
(* clean_signature                                                         *)
(***************************************************************************)
clean_signature(sig) ==
    LET s1 == JoinSpace(SplitWords(sig))
        s2 == IF Contains(s1, "{") THEN Strip(BeforeFirst(s1, "{")) ELSE s1
        s3 == IF EndsWith(s2, ":") THEN Strip(SubSeq(s2, 1, Len(s2) - 1)) ELSE s2
    IN  s3

(***************************************************************************)
(* Paths: a path is the sequence of its characters                         *)
(***************************************************************************)
\* the text after the last "/" (PurePath.name)
PathName(p) ==
    LET at == {k \in 1..Len(p) : p[k] = "/"}
    IN  IF at = {} THEN p
        ELSE SubSeq(p, (CHOOSE k \in at : \A m \in at : k >= m) + 1, Len(p))

\* PurePath.suffix: from the last "." of the name, unless the "." is the
\* first or the last character of the name
PathSuffix(p) ==
    LET name == PathName(p)
        at == {k \in 1..Len(name) : name[k] = "."}
        dot == IF at = {} THEN 0 ELSE CHOOSE k \in at : \A m \in at : k >= m
    IN  IF 1 < dot /\ dot < Len(name) THEN SubSeq(name, dot, Len(name)) ELSE <<>>

\* str.endswith(suffix)
EndsWithStr(s, suf) ==
    /\ Len(s) >= Len(suf)
    /\ SubSeq(s, Len(s) - Len(suf) + 1, Len(s)) = suf

ExtSwift == <<".", "s", "w", "i", "f", "t">>
ExtPy == <<".", "p", "y">>
ExtSh == <<".", "s", "h">>
ExtBash == <<".", "b", "a", "s", "h">>
ExtZsh == <<".", "z", "s", "h">>

INCLUDE_EXTS == {ExtSwift, ExtPy, ExtSh, ExtBash, ExtZsh}

(***************************************************************************)
(* The declaration-head patterns                                           *)
(***************************************************************************)
Punct == {" ", "\t", "{", "}", "(", ")", "[", "]", ":", ",", ".", "/", "#",
          "@", "-", "+", ">", "=", "*"}

\* \w+ consumes whole word lexemes
IsWord(c) == c \notin Punct

SwiftModifiers == {"public", "private", "fileprivate", "internal", "open",
    "static", "class", "override", "mutating", "nonmutating", "convenience",
    "required", "final", "actor", "indirect", "isolated", "nonisolated",
    "distributed", "prefix", "postfix", "infix", "lazy", "weak", "unowned"}

SwiftKeywords == {"func", "init", "deinit"}

\* s without its leading whitespace (\s*)
RECURSIVE SkipWS(_)
SkipWS(s) == IF s # <<>> /\ s[1] \in WS THEN SkipWS(Tail(s)) ELSE s

\* s without its leading word lexemes (\w*)
RECURSIVE SkipWords(_)
SkipWords(s) == IF s # <<>> /\ IsWord(s[1]) THEN SkipWords(Tail(s)) ELSE s

\* (?:(?:public|...)\s+)*(func|init|deinit)\b at the start of s
RECURSIVE MatchSwiftModifiers(_)
MatchSwiftModifiers(s) ==
    /\ s # <<>>
    /\ \/ /\ s[1] \in SwiftKeywords
          /\ Len(s) = 1 \/ ~IsWord(s[2])
       \/ /\ s[1] \in SwiftModifiers
          /\ Len(s) >= 2
          /\ s[2] \in WS
          /\ MatchSwiftModifiers(SkipWS(Tail(s)))

\* (?:@\w+(?:\([^\)]*\))?\s*)* followed by the modifiers and the keyword
RECURSIVE MatchSwiftAttributes(_)
MatchSwiftAttributes(s) ==
    \/ MatchSwiftModifiers(s)
    \/ /\ Len(s) >= 2
       /\ s[1] = "@"
       /\ IsWord(s[2])
       /\ \E n \in 2..Len(s) :
            /\ \A k \in 2..n : IsWord(s[k])
            /\ LET rest == SubSeq(s, n + 1, Len(s))
                   closes == {k \in 2..Len(rest) : rest[k] = ")"}
               IN  \/ MatchSwiftAttributes(SkipWS(rest))
                   \/ /\ rest # <<>>
                      /\ rest[1] = "("
                      /\ closes # {}
                      /\ LET close == CHOOSE k \in closes : \A m \in closes : k <= m
                             after == SubSeq(rest, close + 1, Len(rest))
                         IN  MatchSwiftAttributes(SkipWS(after))

\* SWIFT_PATTERN.match(line)
SWIFT_PATTERN(line) == MatchSwiftAttributes(SkipWS(line))

\* PYTHON_PATTERN.match(line): ^\s*(?:async\s+def|def)\s+\w+\s*\(
PYTHON_PATTERN(line) ==
    LET s0 == SkipWS(line)
        s1 == IF s0 # <<>> /\ s0[1] = "async" /\ Len(s0) >= 2 /\ s0[2] \in WS
                 THEN SkipWS(Tail(s0)) ELSE s0
        s2 == IF s1 # <<>> THEN Tail(s1) ELSE <<>>
        s3 == SkipWS(s2)
        s4 == SkipWS(SkipWords(s3))
    IN  /\ s1 # <<>> /\ s1[1] = "def"
        /\ s2 # <<>> /\ s2[1] \in WS
        /\ s3 # <<>> /\ IsWord(s3[1])
        /\ s4 # <<>> /\ s4[1] = "("

\* SHELL_PATTERN_A.match(text): ^\s*function\s+name\s*\{\s*$
SHELL_PATTERN_A(text) ==
    LET s0 == SkipWS(text)
        s1 == IF s0 # <<>> THEN Tail(s0) ELSE <<>>
        s2 == SkipWS(s1)
        s3 == SkipWS(SkipWords(s2))
    IN  /\ s0 # <<>> /\ s0[1] = "function"
        /\ s1 # <<>> /\ s1[1] \in WS
        /\ s2 # <<>> /\ IsWord(s2[1])
        /\ s3 # <<>> /\ s3[1] = "{"
        /\ SkipWS(Tail(s3)) = <<>>

\* SHELL_PATTERN_B.match(text): ^\s*name\s*\(\)\s*\{\s*$
SHELL_PATTERN_B(text) ==
    LET s0 == SkipWS(text)
        s1 == SkipWS(SkipWords(s0))
        s2 == IF Len(s1) >= 2 THEN SkipWS(SubSeq(s1, 3, Len(s1))) ELSE <<>>
    IN  /\ s0 # <<>> /\ IsWord(s0[1])
        /\ Len(s1) >= 2 /\ s1[1] = "(" /\ s1[2] = ")"
        /\ s2 # <<>> /\ s2[1] = "{"
        /\ SkipWS(Tail(s2)) = <<>>

(***************************************************************************)
(* Signature extraction                                                    *)
(***************************************************************************)
FunctionEntry(path, line, signature, language) ==
    [path |-> path, line |-> line, signature |-> signature, language |-> language]

\* the guard with the comparison off by one
WithinLookaheadOffByOne(sig_lines) == Len(sig_lines) <= 8

\* the guard "len(sig_lines) < 8" of both accumulation loops
WithinLookahead(sig_lines) == Len(sig_lines) < 8

\* the inner while loop of parse_swift; j is the 1-based index of lines[j]
RECURSIVE AccumulateSwift(_, _, _)
AccumulateSwift(lines, sig_lines, j) ==
    IF ~(j <= Len(lines) /\ WithinLookahead(sig_lines)) THEN sig_lines
    ELSE IF Contains(sig_lines[Len(sig_lines)], "{") THEN sig_lines
    ELSE LET nxt == Strip(lines[j])
             appended == Append(sig_lines, nxt)
         IN  IF nxt = <<>> \/ StartsWith(nxt, <<"/", "/">>) THEN sig_lines
             ELSE IF Contains(nxt, "{") THEN appended
             ELSE IF EndsWith(nxt, ")") \/ EndsWith(nxt, "throws")
                                        \/ EndsWith(nxt, "rethrows")
                  THEN IF j + 1 <= Len(lines) /\ StartsWith(Strip(lines[j + 1]), <<"{">>)
                       THEN appended
                       ELSE appended
             ELSE AccumulateSwift(lines, appended, j + 1)

\* the inner while loop of parse_python
RECURSIVE AccumulatePython(_, _, _)
AccumulatePython(lines, sig_lines, j) ==
    IF ~(j <= Len(lines) /\ WithinLookahead(sig_lines)) THEN sig_lines
    ELSE IF EndsWith(sig_lines[Len(sig_lines)], ":") THEN sig_lines
    ELSE LET nxt == Strip(lines[j])
             appended == Append(sig_lines, nxt)
         IN  IF nxt = <<>> \/ StartsWith(nxt, <<"#">>) THEN sig_lines
             ELSE IF EndsWith(nxt, ":") THEN appended
             ELSE AccumulatePython(lines, appended, j + 1)

\* sig_lines of the declaration whose head is lines[i]
SwiftSigLines(lines, i) == AccumulateSwift(lines, <<Strip(lines[i])>>, i + 1)

PythonSigLines(lines, i) == AccumulatePython(lines, <<Strip(lines[i])>>, i + 1)

\* an outer scan that resumes behind the lines the accumulation consumed
NextScanIndexSkipConsumed(i, consumed) == i + consumed

\* the outer scan's "i += 1"; consumed is the number of lines in sig_lines
NextScanIndex(i, consumed) == i + 1

\* the outer while loop of parse_swift
RECURSIVE ScanSwift(_, _, _, _)
ScanSwift(path, lines, i, entries) ==
    IF ~(i <= Len(lines)) THEN entries
    ELSE IF SWIFT_PATTERN(lines[i])
         THEN LET sig_lines == SwiftSigLines(lines, i)
                  sig == clean_signature(JoinSpace(sig_lines))
              IN  ScanSwift(path, lines, NextScanIndex(i, Len(sig_lines)),
                            Append(entries, FunctionEntry(path, i, sig, "Swift")))
         ELSE ScanSwift(path, lines, NextScanIndex(i, 1), entries)

parse_swift(path, lines) == ScanSwift(path, lines, 1, <<>>)

\* the outer while loop of parse_python
RECURSIVE ScanPython(_, _, _, _)
ScanPython(path, lines, i, entries) ==
    IF ~(i <= Len(lines)) THEN entries
    ELSE IF PYTHON_PATTERN(lines[i])
         THEN LET sig_lines == PythonSigLines(lines, i)
                  sig == clean_signature(JoinSpace(sig_lines))
              IN  ScanPython(path, lines, NextScanIndex(i, Len(sig_lines)),
                             Append(entries, FunctionEntry(path, i, sig, "Python")))
         ELSE ScanPython(path, lines, NextScanIndex(i, 1), entries)

parse_python(path, lines) == ScanPython(path, lines, 1, <<>>)

\* the for loop of parse_shell
RECURSIVE ScanShell(_, _, _, _)
ScanShell(path, lines, idx, entries) ==
    IF ~(idx <= Len(lines)) THEN entries
    ELSE LET stripped == Strip(lines[idx])
         IN  IF SHELL_PATTERN_A(stripped) \/ SHELL_PATTERN_B(stripped)
             THEN ScanShell(path, lines, idx + 1,
                    Append(entries,
                           FunctionEntry(path, idx, clean_signature(stripped), "Shell")))
             ELSE ScanShell(path, lines, idx + 1, entries)

parse_shell(path, lines) == ScanShell(path, lines, 1, <<>>)

parse_file(path, lines) ==
    IF PathSuffix(path) = ExtSwift THEN parse_swift(path, lines)
    ELSE IF PathSuffix(path) = ExtPy THEN parse_python(path, lines)
    ELSE parse_shell(path, lines)

(***************************************************************************)
(* String and path ordering                                                *)
(***************************************************************************)
\* the characters of the model in code-point order
Ascii == <<"\t", " ", "#", "(", ")", "*", "+", ",", "-", ".", "/", ":", "=", ">",
           "@", "A", "D", "H", "L", "T", "[", "]", "_", "a", "b", "c", "d", "e",
           "f", "g", "h", "i", "k", "l", "m", "n", "o", "p", "r", "s", "t",
           "u", "v", "w", "x", "y", "z", "{", "}">>

CharCode(c) == CHOOSE k \in 1..Len(Ascii) : Ascii[k] = c

\* the characters of a word lexeme
Spelling(c) ==
    CASE c = "func" -> <<"f", "u", "n", "c">>
      [] c = "def" -> <<"d", "e", "f">>
      [] c = "async" -> <<"a", "s", "y", "n", "c">>
      [] c = "public" -> <<"p", "u", "b", "l", "i", "c">>
      [] c = "function" -> <<"f", "u", "n", "c", "t", "i", "o", "n">>
      [] c = "throws" -> <<"t", "h", "r", "o", "w", "s">>
      [] OTHER -> <<c>>

RECURSIVE Spell(_)
Spell(s) == IF s = <<>> THEN <<>> ELSE Spelling(s[1]) \o Spell(Tail(s))

\* a < b on str: the first differing character decides, a proper prefix is less
RECURSIVE StrLess(_, _)
StrLess(a, b) ==
    IF b = <<>> THEN FALSE
    ELSE IF a = <<>> THEN TRUE
    ELSE IF a[1] # b[1] THEN CharCode(a[1]) < CharCode(b[1])
    ELSE StrLess(Tail(a), Tail(b))

\* PurePath.parts of a relative path
RECURSIVE PathParts(_)
PathParts(p) ==
    LET at == {k \in 1..Len(p) : p[k] = "/"}
    IN  IF at = {} THEN <<p>>
        ELSE LET cut == CHOOSE k \in at : \A m \in at : k <= m
             IN  <<SubSeq(p, 1, cut - 1)>> \o PathParts(SubSeq(p, cut + 1, Len(p)))

\* a < b on lists of str
RECURSIVE PartsLess(_, _)
PartsLess(a, b) ==
    IF b = <<>> THEN FALSE
    ELSE IF a = <<>> THEN TRUE
    ELSE IF a[1] # b[1] THEN StrLess(a[1], b[1])
    ELSE PartsLess(Tail(a), Tail(b))

\* PurePath.__lt__: paths compare by their parts
PathLess(p, q) == PartsLess(PathParts(p), PathParts(q))

\* the sort key of collect_functions: (e.path, e.line, e.signature)
EntryKeyLess(e1, e2) ==
    \/ StrLess(e1.path, e2.path)
    \/ /\ e1.path = e2.path
       /\ \/ e1.line < e2.line
          \/ /\ e1.line = e2.line
             /\ StrLess(Spell(e1.signature), Spell(e2.signature))

\* sorted(): a stable sort; each element goes behind the elements not greater
RECURSIVE InsertPath(_, _)
InsertPath(sorted, p) ==
    IF sorted = <<>> THEN <<p>>
    ELSE IF PathLess(p, sorted[1]) THEN <<p>> \o sorted
    ELSE <<sorted[1]>> \o InsertPath(Tail(sorted), p)

\* sorted(iter_source_files(ROOT))
RECURSIVE SortPaths(_)
SortPaths(paths) ==
    IF paths = <<>> THEN <<>>
    ELSE InsertPath(SortPaths(SubSeq(paths, 1, Len(paths) - 1)), paths[Len(paths)])

RECURSIVE InsertEntry(_, _)
InsertEntry(sorted, e) ==
    IF sorted = <<>> THEN <<e>>
    ELSE IF EntryKeyLess(e, sorted[1]) THEN <<e>> \o sorted
    ELSE <<sorted[1]>> \o InsertEntry(Tail(sorted), e)

\* the final sort left out
SortEntriesSkipped(es) == es

\* sorted(entries, key=lambda e: (e.path, e.line, e.signature))
RECURSIVE SortEntries(_)
SortEntries(es) ==
    IF es = <<>> THEN <<>>
    ELSE InsertEntry(SortEntries(SubSeq(es, 1, Len(es) - 1)), es[Len(es)])

(***************************************************************************)
(* File discovery                                                          *)
(***************************************************************************)
DirLumi == <<"L", "u", "m", "i">>

SOURCE_DIRS == << DirLumi,
    <<"L", "u", "m", "i", "A", "g", "e", "n", "t", "H", "e", "l", "p", "e", "r">>,
    <<"T", "e", "s", "t", "s">>,
    <<"s", "c", "r", "i", "p", "t", "s">>,
    <<"l", "e", "g", "a", "c", "y">> >>

\* ROOT_GLOBS: each pattern is "*" followed by one extension
ROOT_GLOBS == <<ExtSh, ExtBash, ExtZsh, ExtPy, ExtSwift>>

DirDist == <<"d", "i", "s", "t">>

SKIP_DIR_NAMES == {
    <<".", "g", "i", "t">>,
    <<".", "b", "u", "i", "l", "d">>,
    <<".", "b", "u", "i", "l", "d", "-", "c", "h", "e", "c", "k">>,
    DirDist,
    <<"r", "u", "n", "a", "b", "l", "e">>,
    <<".", "v", "s", "c", "o", "d", "e">>,
    <<"n", "o", "d", "e", "_", "m", "o", "d", "u", "l", "e", "s">>,
    <<"D", "e", "r", "i", "v", "e", "d", "D", "a", "t", "a">> }

should_skip(path) ==
    \E k \in 1..Len(PathParts(path)) : PathParts(path)[k] \in SKIP_DIR_NAMES

\* the position at which iter_source_files reaches a path: 1..5 for a file
\* at the root matched by ROOT_GLOBS[k], 6..10 for a file below
\* SOURCE_DIRS[k - 5], 0 for a file it never reaches
DiscoveryPass(path) ==
    LET parts == PathParts(path)
        globs == {k \in 1..Len(ROOT_GLOBS) : EndsWithStr(path, ROOT_GLOBS[k])}
        dirs == {k \in 1..Len(SOURCE_DIRS) : parts[1] = SOURCE_DIRS[k]}
    IN  IF Len(parts) = 1
        THEN IF globs = {} THEN 0 ELSE CHOOSE k \in globs : \A m \in globs : k <= m
        ELSE IF dirs = {} THEN 0 ELSE 5 + (CHOOSE k \in dirs : TRUE)

\* the files iter_source_files yields
Yielded(files) ==
    {p \in files : /\ DiscoveryPass(p) # 0
                   /\ ~should_skip(p)
                   /\ PathSuffix(p) \in INCLUDE_EXTS}

\* iter_source_files: every order in which the files can be yielded; glob and
\* rglob enumerate a directory in file-system order, the passes run in turn
iter_source_files(files) ==
    LET Y == Yielded(files)
        n == Cardinality(Y)
    IN  {o \in [1..n -> Y] :
            /\ \A a, b \in 1..n : a # b => o[a] # o[b]
            /\ \A a, b \in 1..n : a < b => DiscoveryPass(o[a]) <= DiscoveryPass(o[b])}

(***************************************************************************)
(* collect_functions                                                       *)
(***************************************************************************)
\* a failure that ends the loop
RemainingAfterFailureAbort(rest) == <<>>

\* "except Exception: continue": the paths still to scan after a failure
RemainingAfterFailure(rest) == rest

\* the for loop of collect_functions; a file that is not readable makes
\* parse_file raise in read_text
RECURSIVE ExtendEntries(_, _, _)
ExtendEntries(paths, files, entries) ==
    IF paths = <<>> THEN entries
    ELSE IF ~files[paths[1]].readable
         THEN ExtendEntries(RemainingAfterFailure(Tail(paths)), files, entries)
         ELSE ExtendEntries(Tail(paths), files,
                            entries \o parse_file(paths[1], files[paths[1]].lines))

collect_functions(yielded, files) ==
    SortEntries(ExtendEntries(SortPaths(yielded), files, <<>>))

(***************************************************************************)
(* find_changes_in_worktree                                                *)
(***************************************************************************)
\* current_file = None
NoFile == <<>>

DiffFilePrefix == <<"+", "+", "+", " ", "b", "/">>

\* DIFF_FILE_PATTERN.match(raw): ^\+\+\+ b/(.+)$
DIFF_FILE_PATTERN(raw) == StartsWith(raw, DiffFilePrefix) /\ Len(raw) > Len(DiffFilePrefix)

\* m.group(1)
DiffFileGroup(raw) == SubSeq(raw, Len(DiffFilePrefix) + 1, Len(raw))

is_func_signature(text, path) ==
    IF EndsWithStr(path, ExtSwift) THEN SWIFT_PATTERN(text)
    ELSE IF EndsWithStr(path, ExtPy) THEN PYTHON_PATTERN(text)
    ELSE SHELL_PATTERN_A(Strip(text)) \/ SHELL_PATTERN_B(Strip(text))

\* d[key].append(v) on a defaultdict(list)
AppendTo(d, key, v) ==
    IF key \in DOMAIN d THEN [d EXCEPT ![key] = Append(@, v)]
    ELSE [k \in DOMAIN d \cup {key} |-> IF k = key THEN <<v>> ELSE d[k]]

\* the for loop over out.splitlines(); returns the two defaultdicts
RECURSIVE ScanDiff(_, _, _, _)
ScanDiff(out, current_file, add, rem) ==
    IF out = <<>> THEN [added |-> add, removed |-> rem]
    ELSE LET raw == out[1]
             rest == Tail(out)
             line == Tail(raw)
         IN  IF DIFF_FILE_PATTERN(raw) THEN ScanDiff(rest, DiffFileGroup(raw), add, rem)
             ELSE IF current_file = NoFile THEN ScanDiff(rest, current_file, add, rem)
             ELSE IF PathSuffix(current_file) \notin INCLUDE_EXTS
                  THEN ScanDiff(rest, current_file, add, rem)
             ELSE IF \/ StartsWith(raw, <<"+", "+", "+">>)
                     \/ StartsWith(raw, <<"-", "-", "-">>)
                     \/ StartsWith(raw, <<"@", "@">>)
                  THEN ScanDiff(rest, current_file, add, rem)
             ELSE IF StartsWith(raw, <<"+">>)
                  THEN IF is_func_signature(line, current_file)
                       THEN ScanDiff(rest, current_file,
                                AppendTo(add, current_file, clean_signature(Strip(line))), rem)
                       ELSE ScanDiff(rest, current_file, add, rem)
             ELSE IF StartsWith(raw, <<"-">>)
                  THEN IF is_func_signature(line, current_file)
                       THEN ScanDiff(rest, current_file, add,
                                AppendTo(rem, current_file, clean_signature(Strip(line))))
                       ELSE ScanDiff(rest, current_file, add, rem)
             ELSE ScanDiff(rest, current_file, add, rem)

\* the two dicts before deduplication
RecordedChanges(out) == ScanDiff(out, NoFile, <<>>, <<>>)

\* dedupe that keeps everything
dedupe_nothing(values) == values

\* dedupe(values): drop every value already seen
RECURSIVE dedupe_from(_, _, _)
dedupe_from(values, seen, result) ==
    IF values = <<>> THEN result
    ELSE IF values[1] \in seen THEN dedupe_from(Tail(values), seen, result)
    ELSE dedupe_from(Tail(values), seen \cup {values[1]}, Append(result, values[1]))

dedupe(values) == dedupe_from(values, {}, <<>>)

find_changes_in_worktree(out) ==
    LET rec == RecordedChanges(out)
    IN  [added |-> [k \in DOMAIN rec.added |-> dedupe(rec.added[k])],
         removed |-> [k \in DOMAIN rec.removed |-> dedupe(rec.removed[k])]]

(***************************************************************************)
(* The output of "git diff --unified=0": one section per changed file      *)
(***************************************************************************)
DevNull == <<"/", "d", "e", "v", "/", "n", "u", "l", "l">>

HunkHeader == <<"@", "@", " ", "-", "1", " ", "+", "1", " ", "@", "@">>

\* the lines git prints for one file: the header and, when the file's
\* content changed, the old-file and the new-file marker, one hunk header
\* and the content lines
RenderSection(sec) ==
    LET header == <<"diff", " ", "-", "-", "git", " ", "a", "/">> \o sec.file
                                                  \o <<" ", "b", "/">> \o sec.file
        old == IF sec.status = "added" THEN <<"-", "-", "-", " ">> \o DevNull
               ELSE <<"-", "-", "-", " ", "a", "/">> \o sec.file
        new == IF sec.status = "deleted" THEN <<"+", "+", "+", " ">> \o DevNull
               ELSE <<"+", "+", "+", " ", "b", "/">> \o sec.file
    IN  IF sec.body = <<>> THEN <<header>>
        ELSE <<header, old, new, HunkHeader>>
             \o [k \in 1..Len(sec.body) |-> <<sec.body[k].sign>> \o sec.body[k].text]

RECURSIVE RenderDiff(_)
RenderDiff(secs) ==
    IF secs = <<>> THEN <<>> ELSE RenderSection(secs[1]) \o RenderDiff(Tail(secs))

(***************************************************************************)
(* Specification SpecClean: clean_signature applied to every short text    *)
(***************************************************************************)
SigAlphabet == {" ", "\t", "{", ":", "x"}

TypeLexeme ==
    /\ ~sig_done
    /\ Len(sig_in) < MaxLen
    /\ \E c \in SigAlphabet : sig_in' = Append(sig_in, c)
    /\ UNCHANGED <<sig_out, sig_done>>
    /\ UNCHANGED <<varsParse, varsCollect, varsDiff>>

ApplyClean ==
    /\ ~sig_done
    /\ sig_out' = clean_signature(sig_in)
    /\ sig_done' = TRUE
    /\ UNCHANGED sig_in
    /\ UNCHANGED <<varsParse, varsCollect, varsDiff>>

NextClean == TypeLexeme \/ ApplyClean

(***************************************************************************)
(* Specifications SpecParse and SpecCap: one source file is written line   *)
(* by line and then handed to parse_file                                   *)
(***************************************************************************)
PathSwift == <<"a">> \o ExtSwift
PathPy == <<"a">> \o ExtPy
PathSh == <<"a">> \o ExtSh

SwiftLines == {
    <<"func", " ", "x", "(">>,
    <<"x", ":", " ", "x", ")">>,
    <<"x", ")", " ", "throws">>,
    <<"{">>,
    <<>>,
    <<"/", "/", "x">>,
    <<"-", ">", " ", "x">>,
    <<"\t", "public", " ", "func", " ", "x", "(", ")", " ", "{">> }

PythonLines == {
    <<"def", " ", "x", "(">>,
    <<"x", ",">>,
    <<"x", ")", ":">>,
    <<" ", "async", " ", "def", " ", "x", "(", ")", " ", ":">>,
    <<>>,
    <<"#", "x">>,
    <<"def", " ", "x", "(", ")", ":", ":">>,
    <<"x">> }

ShellLines == {
    <<"function", " ", "x", " ", "{">>,
    <<" ", "x", "(", ")", " ", "{", " ">>,
    <<"x", "(", ")", " ", "{", " ", "x">>,
    <<"x">>,
    <<>> }

LinesFor(path) ==
    IF PathSuffix(path) = ExtSwift THEN SwiftLines
    ELSE IF PathSuffix(path) = ExtPy THEN PythonLines
    ELSE ShellLines

\* long files: an open head, a plain continuation, a terminator
LongLinesFor(path) ==
    IF PathSuffix(path) = ExtSwift
    THEN { <<"func", " ", "x", "(">>, <<"x", ",">>, <<")", " ", "{">> }
    ELSE { <<"def", " ", "x", "(">>, <<"x", ",">>, <<")", ":">> }

WriteLine ==
    /\ ~parsed
    /\ Len(src_lines) < MaxLines
    /\ \E l \in LinesFor(src_path) : src_lines' = Append(src_lines, l)
    /\ UNCHANGED <<src_path, src_entries, parsed>>
    /\ UNCHANGED <<varsClean, varsCollect, varsDiff>>

WriteLongLine ==
    /\ ~parsed
    /\ Len(src_lines) < MaxLongLines
    /\ \E l \in LongLinesFor(src_path) : src_lines' = Append(src_lines, l)
    /\ UNCHANGED <<src_path, src_entries, parsed>>
    /\ UNCHANGED <<varsClean, varsCollect, varsDiff>>

ParseFile ==
    /\ ~parsed
    /\ src_entries' = parse_file(src_path, src_lines)
    /\ parsed' = TRUE
    /\ UNCHANGED <<src_path, src_lines>>
    /\ UNCHANGED <<varsClean, varsCollect, varsDiff>>

NextParse == WriteLine \/ ParseFile

NextCap == WriteLongLine \/ ParseFile

(***************************************************************************)
(* Specification SpecCollect: a tree is laid out, then collect_functions   *)
(* runs over it, each run with its own discovery order                     *)
(***************************************************************************)
PathUniverse == {
    DirLumi \o <<"/", "a">> \o ExtPy,
    DirLumi \o <<"-", "a">> \o ExtPy,
    DirLumi \o <<"/", "a">> \o ExtSh,
    DirLumi \o <<"/", "n", ".", "m", "d">>,
    DirLumi \o <<"/">> \o DirDist \o <<"/", "a">> \o ExtPy,
    <<"d", "o", "c", "/", "a">> \o ExtPy }

\* file contents: Python and shell declarations, whatever the file's name
FileContents == {
    << <<"def", " ", "x", "(", ")", ":">>, <<"x", "(", ")", " ", "{">> >>,
    << <<"x", "(", ")", " ", "{">>, <<"def", " ", "x", "(">>,
       <<"def", " ", "x", "(", ")", ":">> >> }

AddFile ==
    /\ cphase = "tree"
    /\ runs = 0
    /\ Cardinality(DOMAIN tree) < MaxFiles
    /\ \E p \in PathUniverse \ DOMAIN tree, c \in FileContents, r \in BOOLEAN :
         tree' = [q \in DOMAIN tree \cup {p} |->
                    IF q = p THEN [lines |-> c, readable |-> r] ELSE tree[q]]
    /\ UNCHANGED <<yield_order, prev_order, index, prev_index, runs, cphase>>
    /\ UNCHANGED <<varsClean, varsParse, varsDiff>>

Discover ==
    /\ cphase \in {"tree", "done"}
    /\ runs < MaxRuns
    /\ \E o \in iter_source_files(DOMAIN tree) : yield_order' = o
    /\ prev_order' = yield_order
    /\ cphase' = "found"
    /\ UNCHANGED <<tree, index, prev_index, runs>>
    /\ UNCHANGED <<varsClean, varsParse, varsDiff>>

Collect ==
    /\ cphase = "found"
    /\ index' = collect_functions(yield_order, tree)
    /\ prev_index' = index
    /\ runs' = runs + 1
    /\ cphase' = "done"
    /\ UNCHANGED <<tree, yield_order, prev_order>>
    /\ UNCHANGED <<varsClean, varsParse, varsDiff>>

NextCollect == AddFile \/ Discover \/ Collect

(***************************************************************************)
(* Specification SpecDiff: git reports a diff, section by section and      *)
(* line by line, and find_changes_in_worktree parses it                    *)
(***************************************************************************)
PathMd == <<"n", ".", "m", "d">>

\* git prints one section per changed file
DiffFiles == {PathPy, PathMd}

DiffTexts == {
    <<"def", " ", "x", "(", ")", ":">>,
    <<"\t", "def", " ", "x", "(", ")", " ", ":">>,
    <<"def", " ", "x", "(">>,
    <<"func", " ", "x", "(", ")", " ", "{">> }

\* a new file has only "+" lines, a deleted file only "-" lines
SignsOf(status) ==
    IF status = "added" THEN {"+"}
    ELSE IF status = "deleted" THEN {"-"}
    ELSE {"+", "-"}

RECURSIVE CountBodyLines(_)
CountBodyLines(secs) ==
    IF secs = <<>> THEN 0 ELSE Len(secs[1].body) + CountBodyLines(Tail(secs))

NewSection ==
    /\ ~diffed
    /\ \E f \in DiffFiles, st \in {"modified", "added", "deleted"} :
         /\ \A k \in 1..Len(sections) : sections[k].file # f
         /\ sections' = Append(sections, [file |-> f, status |-> st, body |-> <<>>])
    /\ UNCHANGED <<added, removed, diffed>>
    /\ UNCHANGED <<varsClean, varsParse, varsCollect>>

NewContentLine ==
    /\ ~diffed
    /\ sections # <<>>
    /\ CountBodyLines(sections) < MaxDiffLines
    /\ LET n == Len(sections)
       IN  \E sg \in SignsOf(sections[n].status), tx \in DiffTexts :
             sections' = [sections EXCEPT ![n].body = Append(@, [sign |-> sg, text |-> tx])]
    /\ UNCHANGED <<added, removed, diffed>>
    /\ UNCHANGED <<varsClean, varsParse, varsCollect>>

FindChanges ==
    /\ ~diffed
    /\ LET res == find_changes_in_worktree(RenderDiff(sections))
       IN  added' = res.added /\ removed' = res.removed
    /\ diffed' = TRUE
    /\ UNCHANGED sections
    /\ UNCHANGED <<varsClean, varsParse, varsCollect>>

NextDiff == NewSection \/ NewContentLine \/ FindChanges

(***************************************************************************)
(* Initial states                                                          *)
(***************************************************************************)
IdleClean == sig_in = <<>> /\ sig_out = <<>> /\ sig_done = FALSE

IdleParse ==
    src_path = PathSh /\ src_lines = <<>> /\ src_entries = <<>> /\ parsed = FALSE

IdleCollect ==
    /\ tree = <<>> /\ yield_order = <<>> /\ prev_order = <<>>
    /\ index = <<>> /\ prev_index = <<>>
    /\ runs = 0 /\ cphase = "tree"

IdleDiff == sections = <<>> /\ added = <<>> /\ removed = <<>> /\ diffed = FALSE

InitClean == IdleClean /\ IdleParse /\ IdleCollect /\ IdleDiff

InitParse ==
    /\ src_path \in {PathSwift, PathPy, PathSh}
    /\ src_lines = <<>> /\ src_entries = <<>> /\ parsed = FALSE
    /\ IdleClean /\ IdleCollect /\ IdleDiff

InitCap ==
    /\ src_path \in {PathSwift, PathPy}
    /\ src_lines = <<>> /\ src_entries = <<>> /\ parsed = FALSE
    /\ IdleClean /\ IdleCollect /\ IdleDiff

InitCollect == IdleClean /\ IdleParse /\ IdleCollect /\ IdleDiff

InitDiff == IdleClean /\ IdleParse /\ IdleCollect /\ IdleDiff

SpecClean == InitClean /\ [][NextClean]_vars

SpecParse == InitParse /\ [][NextParse]_vars

SpecCap == InitCap /\ [][NextCap]_vars

SpecCollect == InitCollect /\ [][NextCollect]_vars

SpecDiff == InitDiff /\ [][NextDiff]_vars

(***************************************************************************)
(* Properties                                                              *)
(***************************************************************************)
\* the source lines (1-based) that match the file's declaration-head pattern
IsHead(path, line) ==
    IF PathSuffix(path) = ExtSwift THEN SWIFT_PATTERN(line)
    ELSE IF PathSuffix(path) = ExtPy THEN PYTHON_PATTERN(line)
    ELSE SHELL_PATTERN_A(Strip(line)) \/ SHELL_PATTERN_B(Strip(line))

Heads == {i \in 1..Len(src_lines) : IsHead(src_path, src_lines[i])}

SigLines(i) ==
    IF PathSuffix(src_path) = ExtSwift THEN SwiftSigLines(src_lines, i)
    ELSE PythonSigLines(src_lines, i)

Accumulating == PathSuffix(src_path) \in {ExtSwift, ExtPy}

\* C1: every entry's signature has no "{" and does not end with ":"
C1_SignatureClean ==
    parsed => \A k \in 1..Len(src_entries) :
                /\ ~Contains(src_entries[k].signature, "{")
                /\ ~EndsWith(src_entries[k].signature, ":")

\* C2: clean_signature(clean_signature(s)) = clean_signature(s) for every s
C2_Idempotent == sig_done => clean_signature(sig_out) = sig_out

\* C3: a Swift accumulation of n lines starting at head i ends only because
\* (a) the accumulated text contains "{", (b) the next line is blank or a
\* comment, (c) the last appended line ends with ")", "throws" or "rethrows"
\* and the line after it starts with "{", or the 8-line cap or the end of
\* the file is reached
SwiftStopReason(i) ==
    LET sig_lines == SwiftSigLines(src_lines, i)
        n == Len(sig_lines)
        last == sig_lines[n]
        more == i + n <= Len(src_lines)
        following == Strip(src_lines[i + n])
    IN  \/ \E k \in 1..n : Contains(sig_lines[k], "{")
        \/ more /\ (following = <<>> \/ StartsWith(following, <<"/", "/">>))
        \/ /\ n >= 2
           /\ EndsWith(last, ")") \/ EndsWith(last, "throws") \/ EndsWith(last, "rethrows")
           /\ more /\ StartsWith(following, <<"{">>)
        \/ n = 8
        \/ ~more

C3_SwiftStopsOnlyAtTerminator ==
    (parsed /\ PathSuffix(src_path) = ExtSwift) => \A i \in Heads : SwiftStopReason(i)

\* the signature built from the k source lines i .. i+k-1
SignatureOfLines(i, k) ==
    clean_signature(JoinSpace([m \in 1..k |-> Strip(src_lines[i + m - 1])]))

\* C4: every head line yields exactly one entry, and the entry's signature
\* is built from at most 8 consecutive lines starting at the head line
C4_LookaheadBound ==
    (parsed /\ Accumulating) =>
        \A i \in Heads :
            /\ Cardinality({k \in 1..Len(src_entries) : src_entries[k].line = i}) = 1
            /\ \A k \in 1..Len(src_entries) :
                 src_entries[k].line = i =>
                    \E n \in 1..8 :
                        /\ i + n - 1 <= Len(src_lines)
                        /\ src_entries[k].signature = SignatureOfLines(i, n)

\* a head followed by at least 8 more lines none of which terminates it: the
\* entry is built from exactly the 8 lines i .. i+7
C4_Witness ==
    /\ parsed /\ Accumulating
    /\ \E i \in Heads :
         /\ i + 8 <= Len(src_lines)
         /\ Len(SigLines(i)) = 8
         /\ \A m \in 1..8 : ~Contains(SigLines(i)[m], "{") /\ ~EndsWith(SigLines(i)[m], ":")
         /\ \E k \in 1..Len(src_entries) :
              src_entries[k].line = i /\ src_entries[k].signature = SignatureOfLines(i, 8)

\* C10: the entries correspond one-to-one, in order, to the head lines
C10_OneEntryPerHead ==
    (parsed /\ Accumulating) =>
        /\ Len(src_entries) = Cardinality(Heads)
        /\ {src_entries[k].line : k \in 1..Len(src_entries)} = Heads
        /\ \A k \in 1..Len(src_entries) - 1 : src_entries[k].line < src_entries[k + 1].line

\* a head line that an earlier declaration's accumulation swallowed has its
\* own entry
C10_Witness ==
    /\ parsed /\ Accumulating
    /\ \E h1, h2 \in Heads :
         /\ h1 < h2
         /\ h2 <= h1 + Len(SigLines(h1)) - 1
         /\ \E k \in 1..Len(src_entries) : src_entries[k].line = h2
\* ---- collect_functions ----
IndexSorted ==
    \A k \in 1..Len(index) - 1 : EntryKeyLess(index[k], index[k + 1])

\* C8: the Index is sorted ascending by (path, line, signature), and two
\* runs over the same tree return the same list whatever the discovery order
C8_SortedAndDeterministic ==
    /\ cphase = "done" => IndexSorted
    /\ (cphase = "done" /\ runs >= 2) => index = prev_index

\* two runs with different discovery orders, and an Index whose string
\* order differs from the order sorted(paths) scans the files in
C8_Witness ==
    /\ cphase = "done" /\ runs >= 2
    /\ Len(yield_order) >= 2
    /\ yield_order # prev_order
    /\ yield_order # SortPaths(yield_order)
    /\ \E a, b \in 1..Len(index) :
         a < b /\ PathLess(index[b].path, index[a].path)

\* the discovered files that parse_file reads without raising
Readable == {p \in Yielded(DOMAIN tree) : tree[p].readable}

Failing == {p \in Yielded(DOMAIN tree) : ~tree[p].readable}

EntriesOf(p) == {parse_file(p, tree[p].lines)[k] : k \in 1..Len(parse_file(p, tree[p].lines))}

\* C9: the Index holds no entry of a failing file and exactly the entries
\* of every other discovered file
C9_FailureIsolation ==
    cphase = "done" =>
        /\ \A k \in 1..Len(index) : index[k].path \notin Failing
        /\ {index[k] : k \in 1..Len(index)} = UNION {EntriesOf(p) : p \in Readable}
        /\ \A a, b \in 1..Len(index) : a # b => index[a] # index[b]

\* a failing file scanned between two files whose entries are in the Index
C9_Witness ==
    /\ cphase = "done"
    /\ \E f \in Failing, p, q \in Readable :
         /\ PathLess(p, f) /\ PathLess(f, q)
         /\ \E k \in 1..Len(index) : index[k].path = p
         /\ \E k \in 1..Len(index) : index[k].path = q
\* ---- find_changes_in_worktree ----
\* the normalized texts of the content lines with the given sign in the
\* sections of file f
SectionSignatures(f, sign) ==
    UNION {{clean_signature(Strip(sections[k].body[m].text)) :
              m \in {n \in 1..Len(sections[k].body) : sections[k].body[n].sign = sign}} :
           k \in {n \in 1..Len(sections) : sections[n].file = f}}

\* C5: every signature recorded in added[F] (removed[F]) is the normalized
\* text of a "+" ("-") content line of F's own section of the diff
C5_OwnSectionOnly ==
    diffed =>
        /\ \A f \in DOMAIN added : \A k \in 1..Len(added[f]) :
              added[f][k] \in SectionSignatures(f, "+")
        /\ \A f \in DOMAIN removed : \A k \in 1..Len(removed[f]) :
              removed[f][k] \in SectionSignatures(f, "-")

\* the diff without the content lines of section k
WithoutBody(k) == [sections EXCEPT ![k].body = <<>>]

\* C6: a file whose extension is not in INCLUDE_EXTS has no entry in the
\* Index, and the content lines of its section of the diff change neither
\* added nor removed
C6_NonInterference ==
    /\ \A k \in 1..Len(index) : PathSuffix(index[k].path) \in INCLUDE_EXTS
    /\ diffed =>
          \A k \in 1..Len(sections) :
              PathSuffix(sections[k].file) \notin INCLUDE_EXTS =>
                  LET res == find_changes_in_worktree(RenderDiff(WithoutBody(k)))
                  IN  added = res.added /\ removed = res.removed

FirstIndex(values, v) ==
    CHOOSE k \in 1..Len(values) : values[k] = v /\ \A m \in 1..(k - 1) : values[m] # v

\* deduped holds each value of recorded once, in first-occurrence order
DedupedInOrder(deduped, recorded) ==
    /\ \A a, b \in 1..Len(deduped) : a # b => deduped[a] # deduped[b]
    /\ Range(deduped) = Range(recorded)
    /\ \A a, b \in 1..Len(deduped) :
         a < b => FirstIndex(recorded, deduped[a]) < FirstIndex(recorded, deduped[b])

\* C7: added[F] and removed[F] hold each recorded signature exactly once,
\* in the order of first occurrence in the diff
C7_DedupOrderPreserving ==
    diffed =>
        LET rec == RecordedChanges(RenderDiff(sections))
        IN  /\ DOMAIN added = DOMAIN rec.added
            /\ DOMAIN removed = DOMAIN rec.removed
            /\ \A f \in DOMAIN added : DedupedInOrder(added[f], rec.added[f])
            /\ \A f \in DOMAIN removed : DedupedInOrder(removed[f], rec.removed[f])

\* a signature recorded twice for one file with another one in between
C7_Witness ==
    /\ diffed
    /\ \E f \in DOMAIN added :
         LET recorded == RecordedChanges(RenderDiff(sections)).added[f]
         IN  /\ Len(recorded) = 3
             /\ recorded[1] = recorded[3]
             /\ recorded[1] # recorded[2]
             /\ added[f] = <<recorded[1], recorded[2]>>
====
